---- MODULE Spec2Model ----
(***************************************************************************)
(* fdlimit: raise_fd_limit() of src/src/lib.rs.                            *)
(*                                                                         *)
(* The crate holds three bodies of raise_fd_limit, one selected by cfg on  *)
(* target_os.  The state below is the kernel state the bodies query and    *)
(* change (the RLIMIT_NOFILE pair of the process, kern.maxfilesperproc),   *)
(* the locals of each thread's invocation, and history variables that      *)
(* record what an invocation has seen and done.                            *)
(*                                                                         *)
(* Integer widths are scaled: libc::c_int is CIntBits wide (32 in the      *)
(* build) and libc::rlim_t is twice as wide and unsigned (u64 in the       *)
(* build), so that `maxfiles as libc::rlim_t` keeps its sign-extending,    *)
(* wrapping meaning.                                                       *)
(***************************************************************************)
EXTENDS Integers, FiniteSets, Sequences, TLC

VARIABLES
    target_os,        \* the cfg(target_os) the crate is built for
    privileged,       \* whether the process may raise hard limits
    mayFail,          \* whether an OS call may fail for a reason outside the model
    nofile,           \* kernel: the process's RLIMIT_NOFILE pair
    maxfilesperproc,  \* kernel: kern.maxfilesperproc
    pc,               \* per thread: position in raise_fd_limit
    maxfiles,         \* per thread: local `maxfiles`
    rlim,             \* per thread: local `rlim`
    ret,              \* per thread: value returned by the last invocation
    ninv,             \* per thread: invocations started
    entry,            \* history: nofile when the invocation started
    queried,          \* history: pair returned by this invocation's getrlimit
    calls,            \* history: OS calls issued by this invocation
    failed,           \* history: OS call of this invocation that failed
    install,          \* history: this invocation's setrlimit call
    prev,             \* history: value returned by the previous invocation
    interfered,       \* history: pair changed by another actor since getrlimit
    extLeft,          \* external changes still allowed
    quota             \* invocations each thread may start

vars == <<target_os, privileged, mayFail, nofile, maxfilesperproc, pc, maxfiles,
          rlim, ret, ninv, entry, queried, calls, failed, install, prev,
          interfered, extLeft, quota>>

locals == <<maxfiles, rlim>>
kernel == <<nofile, maxfilesperproc>>
build  == <<target_os, privileged, mayFail, quota>>

----------------------------------------------------------------------------
(* Bounds *)

CIntBits   == 3     \* width of libc::c_int in the model
MaxLimit   == 4     \* finite limits range over 0..MaxLimit
MaxCalls   == 2     \* invocations per thread
NThreads   == 2     \* threads of the concurrent specification
MaxExternal == 1    \* changes made by another actor

----------------------------------------------------------------------------
(* Types of libc *)

CIntMin == -(2 ^ (CIntBits - 1))
CIntMax == 2 ^ (CIntBits - 1) - 1
CInt    == CIntMin .. CIntMax

RlimBits    == 2 * CIntBits
RlimModulus == 2 ^ RlimBits

Threads == 1 .. NThreads

TargetOS == {"macos", "ios", "linux", "freebsd"}

\* cfg(any(target_os = "macos", target_os = "ios"))
CfgDarwin(os) == os \in {"macos", "ios"}
\* cfg(any(target_os = "linux"))
CfgLinux(os) == os = "linux"
\* cfg(not(any(target_os = "macos", target_os = "ios", target_os = "linux")))
CfgOther(os) == ~(os \in {"macos", "ios", "linux"})

\* RLIM_INFINITY: all ones on Linux, the largest signed value on Darwin.
RLIM_INFINITY(os) ==
    IF CfgLinux(os) THEN RlimModulus - 1 ELSE RlimModulus \div 2 - 1

Limits(os) == (0 .. MaxLimit) \cup {RLIM_INFINITY(os)}

Pair(c, m) == [rlim_cur |-> c, rlim_max |-> m]

\* `maxfiles as libc::rlim_t`: sign-extend, then reinterpret as unsigned.
AsRlim(x) == IF x >= 0 THEN x % RlimModulus ELSE (x + RlimModulus) % RlimModulus

Min(a, b) == IF a <= b THEN a ELSE b

----------------------------------------------------------------------------
(* Values of Result<Option<u64>, RaiseLimitError> *)

NoResult    == [kind |-> "none",   val |-> 0, method |-> "", source |-> ""]
OkSome(n)   == [kind |-> "OkSome", val |-> n, method |-> "", source |-> ""]
OkNone      == [kind |-> "OkNone", val |-> 0, method |-> "", source |-> ""]
RaiseLimitError(m, e) ==
               [kind |-> "Err",    val |-> 0, method |-> m,  source |-> e]
\* rustc rejects the body: no function is built, a call has no value.
Mismatched  == [kind |-> "E0308",  val |-> 0, method |-> "", source |-> ""]

NoInstall == [done |-> FALSE, arg |-> Pair(0, 0), hardBefore |-> 0,
              hardAfter |-> 0, ok |-> FALSE]
NoCalls   == [sysctl |-> 0, getrlimit |-> 0, setrlimit |-> 0]

----------------------------------------------------------------------------
(* Return types *)

\* The success type each body is declared to return.
DeclaredOk(os) == IF CfgOther(os) THEN "u64" ELSE "Option<u64>"

\* Whether value v inhabits Result<ty, RaiseLimitError>.
Conforms(v, ty) ==
    \/ v.kind = "Err"
    \/ ty = "Option<u64>" /\ v.kind \in {"OkSome", "OkNone"}
    \/ ty = "u64" /\ v.kind = "OkU64"

\* What a caller gets from a body whose tail expression evaluates to v.
Returned(os, v) == IF Conforms(v, DeclaredOk(os)) THEN v ELSE Mismatched

----------------------------------------------------------------------------
(* The kernel *)

\* Outcomes of an OS call whose arguments are valid: TRUE is success.
Outcomes == IF mayFail THEN {TRUE, FALSE} ELSE {TRUE}

\* setrlimit(2): "" when the kernel accepts `new` over `cur`.
SetrlimitErrno(new, cur, priv) ==
    IF new.rlim_cur > new.rlim_max THEN "EINVAL"
    ELSE IF new.rlim_max > cur.rlim_max /\ ~priv THEN "EPERM"
    ELSE ""

----------------------------------------------------------------------------
(* raise_fd_limit *)

\* Variant: the sysctl error branch copied from the getrlimit one.
SysctlMethodCopied == "getrlimit"

\* method of the error returned when sysctl fails
SysctlMethod == "libc"
\* method of the error returned when getrlimit fails
GetrlimitMethod == "getrlimit"
\* method of the error returned when setrlimit fails
SetrlimitMethod == "setrlimit"

\* Variant: the error branch of getrlimit without its `return`.
AfterGetrlimitErrFallsThrough == "setrlimit"

\* Where control goes after the error branch of getrlimit: out of the function.
AfterGetrlimitErr == "done"

\* Variant: the soft limit raised by the ceiling instead of to it.
NewSoftDarwinAdds(mf, r) == Min(r.rlim_cur + AsRlim(mf), r.rlim_max)

\* rlim.rlim_cur = cmp::min(maxfiles as libc::rlim_t, rlim.rlim_max)
NewSoftDarwin(mf, r) == Min(AsRlim(mf), r.rlim_max)

\* Variant: the assignment of rlim_max to rlim_cur left out.
NewSoftLinuxKeepsSoft(r) == r.rlim_cur

\* rlim.rlim_cur = rlim.rlim_max
NewSoftLinux(r) == r.rlim_max

\* Variant: the hard limit asked for is RLIM_INFINITY.
BumpRaisesHard(os, mf, r) ==
    Pair(IF CfgDarwin(os) THEN Min(AsRlim(mf), r.rlim_max) ELSE r.rlim_max,
         RLIM_INFINITY(os))

\* The pair handed to setrlimit: rlim with rlim_cur reassigned.
Bump(os, mf, r) ==
    Pair(IF CfgDarwin(os) THEN NewSoftDarwin(mf, r) ELSE NewSoftLinux(r),
         r.rlim_max)

FirstStep(os) ==
    IF CfgDarwin(os) THEN "sysctl"
    ELSE IF CfgLinux(os) THEN "getrlimit"
    ELSE "body"

Count(t, step) == [calls EXCEPT ![t][step] = @ + 1]
Fail(t, step)  == [failed EXCEPT ![t] = IF @ = "none" THEN step ELSE @]

\* A thread enters raise_fd_limit.
Call(t) ==
    /\ pc[t] \in {"idle", "done"}
    /\ ninv[t] < quota
    /\ pc' = [pc EXCEPT ![t] = FirstStep(target_os)]
    /\ ninv' = [ninv EXCEPT ![t] = @ + 1]
    /\ maxfiles' = [maxfiles EXCEPT ![t] = 0]
    /\ rlim' = [rlim EXCEPT ![t] = Pair(0, 0)]
    /\ prev' = [prev EXCEPT ![t] = ret[t]]
    /\ ret' = [ret EXCEPT ![t] = NoResult]
    /\ entry' = [entry EXCEPT ![t] = nofile]
    /\ queried' = [queried EXCEPT ![t] = Pair(0, 0)]
    /\ calls' = [calls EXCEPT ![t] = NoCalls]
    /\ failed' = [failed EXCEPT ![t] = "none"]
    /\ install' = [install EXCEPT ![t] = NoInstall]
    /\ interfered' = [interfered EXCEPT ![t] = FALSE]
    /\ UNCHANGED <<build, kernel, extLeft>>

\* libc::sysctl(kern.maxfilesperproc) and its error branch.
Sysctl(t) ==
    /\ pc[t] = "sysctl"
    /\ calls' = Count(t, "sysctl")
    /\ \E ok \in Outcomes :
         IF ok
         THEN /\ maxfiles' = [maxfiles EXCEPT ![t] = maxfilesperproc]
              /\ pc' = [pc EXCEPT ![t] = "getrlimit"]
              /\ UNCHANGED <<ret, failed>>
         ELSE /\ ret' = [ret EXCEPT ![t] =
                    Returned(target_os, RaiseLimitError(SysctlMethod, "ENOMEM"))]
              /\ failed' = Fail(t, "sysctl")
              /\ pc' = [pc EXCEPT ![t] = "done"]
              /\ UNCHANGED maxfiles
    /\ UNCHANGED <<build, kernel, rlim, ninv, entry, queried, install, prev,
                   interfered, extLeft>>

\* libc::getrlimit(RLIMIT_NOFILE), its error branch, and the reassignment of
\* rlim.rlim_cur that follows it.
Getrlimit(t) ==
    /\ pc[t] = "getrlimit"
    /\ calls' = Count(t, "getrlimit")
    /\ \E ok \in Outcomes :
         IF ok
         THEN /\ rlim' = [rlim EXCEPT ![t] = Bump(target_os, maxfiles[t], nofile)]
              /\ queried' = [queried EXCEPT ![t] = nofile]
              /\ interfered' = [interfered EXCEPT ![t] = FALSE]
              /\ pc' = [pc EXCEPT ![t] = "setrlimit"]
              /\ UNCHANGED <<ret, failed>>
         ELSE /\ ret' = [ret EXCEPT ![t] =
                    Returned(target_os, RaiseLimitError(GetrlimitMethod, "EFAULT"))]
              /\ failed' = Fail(t, "getrlimit")
              /\ pc' = [pc EXCEPT ![t] = AfterGetrlimitErr]
              /\ UNCHANGED <<rlim, queried, interfered>>
    /\ UNCHANGED <<build, kernel, maxfiles, ninv, entry, install, prev, extLeft>>

\* libc::setrlimit(RLIMIT_NOFILE, &rlim), its error branch, and the return
\* of Ok(Some(rlim.rlim_cur)).
Setrlimit(t) ==
    /\ pc[t] = "setrlimit"
    /\ calls' = Count(t, "setrlimit")
    /\ pc' = [pc EXCEPT ![t] = "done"]
    /\ \E ok \in Outcomes :
         LET errno == SetrlimitErrno(rlim[t], nofile, privileged) IN
         IF ok /\ errno = ""
         THEN /\ nofile' = rlim[t]
              /\ ret' = [ret EXCEPT ![t] =
                    Returned(target_os, OkSome(rlim[t].rlim_cur))]
              /\ install' = [install EXCEPT ![t] =
                    [done |-> TRUE, arg |-> rlim[t],
                     hardBefore |-> nofile.rlim_max,
                     hardAfter |-> rlim[t].rlim_max, ok |-> TRUE]]
              /\ UNCHANGED failed
         ELSE /\ UNCHANGED nofile
              /\ ret' = [ret EXCEPT ![t] =
                    Returned(target_os,
                        RaiseLimitError(SetrlimitMethod,
                            IF errno = "" THEN "EPERM" ELSE errno))]
              /\ install' = [install EXCEPT ![t] =
                    [done |-> TRUE, arg |-> rlim[t],
                     hardBefore |-> nofile.rlim_max,
                     hardAfter |-> nofile.rlim_max, ok |-> FALSE]]
              /\ failed' = Fail(t, "setrlimit")
    /\ UNCHANGED <<build, maxfilesperproc, locals, ninv, entry, queried, prev,
                   interfered, extLeft>>

\* The body for every other target_os: Ok(None).
Other(t) ==
    /\ pc[t] = "body"
    /\ ret' = [ret EXCEPT ![t] = Returned(target_os, OkNone)]
    /\ pc' = [pc EXCEPT ![t] = "done"]
    /\ UNCHANGED <<build, kernel, locals, ninv, entry, queried, calls, failed,
                   install, prev, interfered, extLeft>>

\* Another actor (a thread of the process, or prlimit from outside) changes
\* the RLIMIT_NOFILE pair.
ExternalSetrlimit ==
    /\ extLeft > 0
    /\ \E c \in Limits(target_os), m \in Limits(target_os) :
         /\ Pair(c, m) # nofile
         /\ SetrlimitErrno(Pair(c, m), nofile, privileged) = ""
         /\ nofile' = Pair(c, m)
    /\ extLeft' = extLeft - 1
    /\ interfered' = [t \in Threads |-> interfered[t] \/ pc[t] = "setrlimit"]
    /\ UNCHANGED <<build, maxfilesperproc, pc, locals, ret, ninv, entry, queried,
                   calls, failed, install, prev>>

----------------------------------------------------------------------------
(* Specifications *)

InitWith(fail, ext, n, ceilings) ==
    /\ target_os \in TargetOS
    /\ privileged \in BOOLEAN
    /\ mayFail = fail
    /\ extLeft = ext
    /\ quota = n
    /\ maxfilesperproc \in ceilings
    /\ \E c \in Limits(target_os), m \in Limits(target_os) :
         c <= m /\ nofile = Pair(c, m)
    /\ pc = [t \in Threads |-> "idle"]
    /\ maxfiles = [t \in Threads |-> 0]
    /\ rlim = [t \in Threads |-> Pair(0, 0)]
    /\ ret = [t \in Threads |-> NoResult]
    /\ ninv = [t \in Threads |-> 0]
    /\ entry = [t \in Threads |-> Pair(0, 0)]
    /\ queried = [t \in Threads |-> Pair(0, 0)]
    /\ calls = [t \in Threads |-> NoCalls]
    /\ failed = [t \in Threads |-> "none"]
    /\ install = [t \in Threads |-> NoInstall]
    /\ prev = [t \in Threads |-> NoResult]
    /\ interfered = [t \in Threads |-> FALSE]

\* One thread calls raise_fd_limit repeatedly; nothing else touches the limits.
Init == InitWith(TRUE, 0, MaxCalls, CInt)

Next ==
    \/ Call(1)
    \/ Sysctl(1)
    \/ Getrlimit(1)
    \/ Setrlimit(1)
    \/ Other(1)

Spec == Init /\ [][Next]_vars

\* One thread calls raise_fd_limit once while another actor changes the pair.
InitEnv == InitWith(TRUE, MaxExternal, 1, {-1, CIntMax})

NextEnv ==
    \/ Call(1)
    \/ Sysctl(1)
    \/ Getrlimit(1)
    \/ Setrlimit(1)
    \/ Other(1)
    \/ ExternalSetrlimit

SpecEnv == InitEnv /\ [][NextEnv]_vars

\* Several threads call raise_fd_limit; every OS call with valid arguments
\* succeeds and nothing else touches the limits.
InitRace == InitWith(FALSE, 0, MaxCalls, CInt)

NextRace ==
    \/ \E t \in Threads : Call(t)
    \/ \E t \in Threads : Sysctl(t)
    \/ \E t \in Threads : Getrlimit(t)
    \/ \E t \in Threads : Setrlimit(t)
    \/ \E t \in Threads : Other(t)

SpecRace == InitRace /\ [][NextRace]_vars

----------------------------------------------------------------------------
(* Properties *)

Done(t)      == pc[t] = "done"
Succeeded(t) == Done(t) /\ ret[t].kind = "OkSome"
Errored(t)   == Done(t) /\ ret[t].kind = "Err"

\* C1: after a successful call on macOS, iOS or Linux, the soft limit
\* installed and returned is at most the hard limit returned by the call's
\* getrlimit and, on macOS and iOS, at most the kern.maxfilesperproc value
\* returned by the call's sysctl, whatever c_int value that is.
C1_SoftWithinHardAndCeiling ==
    \A t \in Threads :
        Succeeded(t) =>
            /\ install[t].arg.rlim_cur = ret[t].val
            /\ ret[t].val <= queried[t].rlim_max
            /\ CfgDarwin(target_os) => ret[t].val <= maxfiles[t]

\* C2: on macOS and iOS a successful call installs the pair
\* (min(C, hard), hard) and returns min(C, hard), where C is the value
\* sysctl returned and (soft, hard) the pair getrlimit returned.
C2_DarwinInstallsMin ==
    \A t \in Threads :
        Succeeded(t) /\ CfgDarwin(target_os) =>
            LET m == Min(maxfiles[t], queried[t].rlim_max) IN
            /\ install[t].arg = Pair(m, queried[t].rlim_max)
            /\ ret[t] = OkSome(m)

\* C3: on Linux a successful call installs (hard, hard) and returns
\* Ok(Some(hard)), where hard is the hard limit getrlimit returned, and the
\* soft limit in force once the call has returned is the value returned.
C3_LinuxInstallsHard ==
    \A t \in Threads :
        Succeeded(t) /\ CfgLinux(target_os) =>
            /\ install[t].arg = Pair(queried[t].rlim_max, queried[t].rlim_max)
            /\ ret[t] = OkSome(queried[t].rlim_max)
            /\ nofile = Pair(ret[t].val, ret[t].val)

C3_Witness ==
    \E t \in Threads :
        /\ Succeeded(t) /\ CfgLinux(target_os)
        /\ entry[t].rlim_cur < entry[t].rlim_max
        /\ ret[t].val = entry[t].rlim_max

\* C4: when two successive calls of a thread both succeed and nothing else
\* changed the limits in between, the second returns the value the first
\* returned (so no less), and the soft limit after it is no lower than the
\* one the first installed.
C4_SecondCallKeepsLimit ==
    \A t \in Threads :
        Succeeded(t) /\ prev[t].kind = "OkSome" =>
            /\ ret[t].val >= prev[t].val
            /\ ret[t].val = prev[t].val
            /\ nofile.rlim_cur >= prev[t].val
            /\ entry[t].rlim_cur = prev[t].val

C4_Witness ==
    \E t \in Threads :
        /\ Succeeded(t) /\ prev[t].kind = "OkSome" /\ ninv[t] = 2
        /\ CfgDarwin(target_os)
        /\ ret[t].val > 0

\* The step a caller reads off the method of an error.
StepOf(method) ==
    CASE method = "libc" -> "sysctl"
      [] method = "getrlimit" -> "getrlimit"
      [] method = "setrlimit" -> "setrlimit"
      [] OTHER -> "unknown"

\* C5: a call in which an OS call failed returns an error whose method
\* identifies that OS call (the three methods are distinct) and which
\* carries the OS cause; a call returns an error only if an OS call failed,
\* and never returns success after a failure.
C5_ErrorNamesFailedStep ==
    \A t \in Threads :
        Done(t) =>
            /\ failed[t] # "none" =>
                 /\ ret[t].kind = "Err"
                 /\ StepOf(ret[t].method) = failed[t]
                 /\ ret[t].source # ""
            /\ ret[t].kind = "Err" => failed[t] # "none"

C5_Witness ==
    \E t \in Threads :
        /\ Errored(t) /\ failed[t] = "sysctl" /\ ret[t].method = "libc"

\* C6: a call stops at the first OS call that fails: after a failed sysctl
\* or getrlimit no setrlimit is issued, each OS call is issued at most once
\* per call, and when the call has returned an error the limit pair is the
\* one in force when the call began.
C6_AbortsAtFirstFailure ==
    \A t \in Threads :
        /\ calls[t].sysctl <= 1 /\ calls[t].getrlimit <= 1 /\ calls[t].setrlimit <= 1
        /\ failed[t] \in {"sysctl", "getrlimit"} => calls[t].setrlimit = 0
        /\ failed[t] = "sysctl" => calls[t].getrlimit = 0
        /\ failed[t] # "none" => Done(t)
        /\ Errored(t) => nofile = entry[t]

C6_Witness ==
    \E t \in Threads :
        /\ Errored(t) /\ failed[t] = "getrlimit"
        /\ calls[t].getrlimit = 1 /\ calls[t].setrlimit = 0
        /\ entry[t].rlim_cur < entry[t].rlim_max

\* C7: on any target_os other than macos, ios and linux every call returns
\* Ok(None), issues no OS call and leaves the limit pair unchanged.
C7_OtherReturnsOkNone ==
    \A t \in Threads :
        Done(t) /\ CfgOther(target_os) =>
            /\ ret[t] = OkNone
            /\ calls[t] = NoCalls
            /\ nofile = entry[t]

\* C8 as stated: the hard value passed to setrlimit is never above the hard
\* limit in force at that moment, and the hard limit after the setrlimit is
\* no higher than before it, even when another actor changes the pair
\* between the call's getrlimit and its setrlimit.
C8_NeverAboveHardInForce ==
    \A t \in Threads :
        install[t].done =>
            /\ install[t].arg.rlim_max <= install[t].hardBefore
            /\ install[t].hardAfter <= install[t].hardBefore

\* C8 as amended: the hard value passed to setrlimit is the hard limit the
\* call's own getrlimit returned; when no other actor changed the pair
\* between the getrlimit and the setrlimit it is the hard limit in force,
\* and the setrlimit leaves the hard limit as it was.
C8_PassesQueriedHard ==
    \A t \in Threads :
        install[t].done =>
            /\ install[t].arg.rlim_max = queried[t].rlim_max
            /\ ~interfered[t] =>
                 /\ install[t].arg.rlim_max = install[t].hardBefore
                 /\ install[t].hardAfter = install[t].hardBefore

C8_Witness ==
    \E t \in Threads :
        /\ install[t].done /\ install[t].ok /\ ~interfered[t]
        /\ extLeft < MaxExternal
        /\ queried[t].rlim_cur < queried[t].rlim_max
        /\ install[t].hardAfter = queried[t].rlim_max

\* The value C9 expects every call to return.
RaceResult ==
    IF CfgLinux(target_os) THEN nofile.rlim_max
    ELSE Min(maxfilesperproc, nofile.rlim_max)

\* C9: when threads call concurrently and nothing else touches the limits,
\* the hard limit stays what it was, every call returns hard on Linux and
\* min(ceiling, hard) on macOS and iOS, and once every call has returned the
\* soft limit is that value.
C9_RaceIsBenign ==
    /\ \A t \in Threads :
          Done(t) /\ ~CfgOther(target_os) =>
              /\ ret[t] = OkSome(RaceResult)
              /\ nofile.rlim_max = entry[t].rlim_max
    /\ (/\ ~CfgOther(target_os)
        /\ \A t \in Threads : pc[t] \in {"idle", "done"}
        /\ \E t \in Threads : Done(t)) => nofile.rlim_cur = RaceResult

\* C10: a successful call never lowers the soft limit: the soft limit in
\* force after it is at least the one in force when it began.
C10_NeverLowersSoft ==
    \A t \in Threads :
        Succeeded(t) => nofile.rlim_cur >= entry[t].rlim_cur

====
